---- MODULE Spec2Model ----
(***************************************************************************)
(* Open-addressing hash table (HashMap of include/hash_map.h, with the     *)
(* policies of policy.h).  The table is the slot array m_data, the count   *)
(* m_size and the head index m_begin of the intrusive traversal list.      *)
(* Every public operation is one action.  Spec makes every call;           *)
(* OrderSpec makes the calls that do not rehash and records the order of   *)
(* insertion; PolicySpec applies the functions of policy.h on their own;   *)
(* EraseSpec adds erase(end(), end()) to the calls of Spec.                *)
(***************************************************************************)
EXTENDS Integers, FiniteSets, Sequences, TLC

(***************************************************************************)
(* Bounds of the model.                                                    *)
(***************************************************************************)
\* log2 of the floor of the slot array.  policy.h:82 uses a floor of 64
\* slots (log2 = 6); the model scales the floor down to 2^FloorLog2.
FloorLog2 == 2
\* keys are 0 .. MaxKey
MaxKey == 3
\* the slot array never grows beyond MaxBuckets slots (growth is guarded)
MaxBuckets == 8
\* longest initializer list passed to insert(std::initializer_list)
MaxInit == 2

\* bits of std::size_t, scaled: the arithmetic of Power2RehashPolicy is
\* modulo 2^WordBits (2^64 in the source)
WordBits == 6

\* largest array size that the functions of policy.h are applied to on their
\* own (PolicySpec)
MaxProbeSize == 16

Keys == 0 .. MaxKey

\* Mapped values.  The table never inspects a mapped value (it only stores,
\* copies and assigns it), so two distinguishable values show every effect:
\* the value-initialised mapped_type that operator[] stores, and another one.
DefaultValue == 0

OtherValue == 1

Values == {DefaultValue, OtherValue}

VARIABLES m_data, m_size, m_begin, policy, hung

\* Two records kept beside the table.  inserted: the keys in the order of
\* their most recent insertion, latest first (kept by OrderSpec).  call: the
\* application of a function of policy.h under way (kept by PolicySpec).
VARIABLES inserted, call

vars == <<m_data, m_size, m_begin, policy, hung, inserted, call>>

\* no function of policy.h is applied
NoCall == [fn |-> "none", x |-> 0, y |-> 0, size |-> 0, out |-> 0, seen |-> {}]

(***************************************************************************)
(* Integer helpers for the bit operations of policy.h.                     *)
(***************************************************************************)
RECURSIVE Pow2(_)
Pow2(n) == IF n = 0 THEN 1 ELSE 2 * Pow2(n - 1)

RECURSIVE BitAnd(_, _)
BitAnd(a, b) ==
    IF a = 0 \/ b = 0 THEN 0
    ELSE (a % 2) * (b % 2) + 2 * BitAnd(a \div 2, b \div 2)

\* default second argument of Power2RehashPolicy::new_size, scaled
DefaultBuckets == Pow2(FloorLog2)

\* number of values of std::size_t
Word == Pow2(WordBits)

\* result of a loop that never exits
NoReturn == -2

(***************************************************************************)
(* policy.h                                                                *)
(***************************************************************************)
\* mutant of LinearProbing::next: the sum is not masked
LinearProbing_next_unmasked(start, step, size) == start + step

LinearProbing_next(start, step, size) == BitAnd(start + step, size - 1)

\* mutant of QuadraticProbing::next: the offset is the square of the step for
\* every size
QuadraticProbing_next_square(start, step, size) == (start + step * step) % size

QuadraticProbing_next(start, step, size) ==
    IF BitAnd(size, size - 1) = 0
    THEN BitAnd(start + ((step * step + step) \div 2), size - 1)
    ELSE (start + step * step) % size

MaskRangeHashing_hash(h, size) == BitAnd(h, size - 1)

\* mutant of need_rehash: the threshold is off by one
need_rehash_late(size, bucket_count) == size > (bucket_count \div 2) + 1

need_rehash(size, bucket_count) == size > (bucket_count \div 2)

buckets_number(desired_size) == (desired_size * 2) % Word

\* mutant of new_size: the doubling starts from the floor, whatever the
\* current size
new_size_from_floor(desired_size, current_size) ==
    LET powers == {Pow2(j) : j \in FloorLog2 .. (FloorLog2 + 4)}
    IN  CHOOSE p \in powers :
           p >= desired_size /\ \A q \in powers : q >= desired_size => p <= q

\* current_size <<= 1 drops the bit shifted out of the word; once
\* current_size is 0 it stays 0, and the loop is not left
RECURSIVE new_size(_, _)
new_size(desired_size, current_size) ==
    IF current_size < desired_size
    THEN (IF current_size = 0 THEN NoReturn
          ELSE new_size(desired_size, (current_size * 2) % Word))
    ELSE current_size

(***************************************************************************)
(* Slots.  m_end is the sentinel index (size_t max in the source): it is   *)
(* no index of any slot array.                                             *)
(***************************************************************************)
m_end == -1

EmptySlot == [st |-> "Empty", key |-> 0, val |-> 0, next |-> m_end, prev |-> m_end]

ErasedSlot == [st |-> "Erased", key |-> 0, val |-> 0, next |-> m_end, prev |-> m_end]

Node(k, v) == [st |-> "Node", key |-> k, val |-> v, next |-> m_end, prev |-> m_end]

is_used(e) == e.st = "Node"

is_empty(e) == e.st = "Empty"

BucketCount(data) == Cardinality(DOMAIN data)

FreshData(n) == [i \in 0 .. n - 1 |-> EmptySlot]

\* a table value: what the member functions read and write
Table(data, size, begin) == [data |-> data, size |-> size, begin |-> begin]

This == Table(m_data, m_size, m_begin)

\* state of the hasher object: the factor it multiplies a key with
hasher_state == 2

\* The hasher is supplied by the caller (template parameter Hash).  This one
\* spreads the keys over the even hash values, so that keys share a start
\* index in a small array and probe sequences run through foreign slots.
Hash(key) == key * hasher_state

\* HashSet keeps a reference to the hasher it was constructed with
\* (const hasher & m_hash) where HashMap keeps a copy.  The referenced
\* object is the constructor's argument; when that is a temporary (the
\* default argument hasher() is one), its lifetime ends with the
\* constructor call and a later read of its state yields any value.
HashSet_m_hash(key, state_read) == key * state_read

CollisionPolicy_next(start, step, size) ==
    IF policy = "Linear"
    THEN LinearProbing_next(start, step, size)
    ELSE QuadraticProbing_next(start, step, size)

index(data, key) == MaskRangeHashing_hash(Hash(key), BucketCount(data))

(***************************************************************************)
(* find_pos: the probe loop.  The loop has no exit but the two returns; a  *)
(* probe sequence is periodic in step with a period of at most 2 * size,   *)
(* and the slots do not change while it runs, so a loop that has not       *)
(* returned after 2 * size steps never returns.                            *)
(***************************************************************************)
\* size is m_data.size()
RECURSIVE find_pos_loop(_, _, _, _, _, _, _, _)
find_pos_loop(data, size, key, seek_erased, start, step, i, first_erased) ==
    IF step > 2 * size THEN NoReturn
    ELSE IF is_empty(data[i])
    THEN (IF first_erased = size THEN i ELSE first_erased)
    ELSE IF is_used(data[i]) /\ data[i].key = key THEN i
    ELSE find_pos_loop(data, size, key, seek_erased, start, step + 1,
                       CollisionPolicy_next(start, step + 1, size),
                       IF ~is_used(data[i]) /\ seek_erased /\ first_erased = size
                       THEN i ELSE first_erased)

find_pos(data, key, seek_erased) ==
    LET size == BucketCount(data)
        start == index(data, key)
    IN  find_pos_loop(data, size, key, seek_erased, start, 0, start, size)

search(data, key) == find_pos(data, key, FALSE)

find_insertion_pos(data, key) == find_pos(data, key, TRUE)

\* find: position of the returned iterator (m_end for end())
find(data, key) ==
    LET pos == search(data, key)
    IN  IF pos = NoReturn THEN NoReturn
        ELSE IF is_used(data[pos]) THEN pos ELSE m_end

contains(data, key) ==
    LET pos == search(data, key)
    IN  IF pos = NoReturn THEN NoReturn
        ELSE IF is_used(data[pos]) THEN 1 ELSE 0

\* at: what the call yields, the mapped value or the exception
out_of_range == -3

at(data, key) ==
    LET pos == search(data, key)
    IN  IF pos = NoReturn THEN NoReturn
        ELSE IF is_used(data[pos]) THEN data[pos].val ELSE out_of_range

(***************************************************************************)
(* The traversal list.                                                     *)
(***************************************************************************)
\* mutant of insert_at: a table that has a head keeps it, and the new entry
\* is linked behind it
insert_at_keeps_head(t, pos, key, val) ==
    IF t.begin = m_end
    THEN Table([t.data EXCEPT ![pos] = Node(key, val)], t.size + 1, pos)
    ELSE LET after == t.data[t.begin].next
             d1 == [t.data EXCEPT ![pos] = [Node(key, val) EXCEPT
                                              !.prev = t.begin, !.next = after],
                                  ![t.begin].next = pos]
             d2 == IF after # m_end THEN [d1 EXCEPT ![after].prev = pos] ELSE d1
         IN  Table(d2, t.size + 1, t.begin)

insert_at(t, pos, key, val) ==
    LET d1 == [t.data EXCEPT ![pos] = [Node(key, val) EXCEPT !.next = t.begin]]
        d2 == IF t.begin # m_end
              THEN [d1 EXCEPT ![t.begin].prev = pos]
              ELSE d1
    IN  Table(d2, t.size + 1, pos)

\* mutant of link_nodes: the back link of right is not updated
link_nodes_no_prev(t, left, right) ==
    Table(IF left # m_end THEN [t.data EXCEPT ![left].next = right] ELSE t.data,
          t.size,
          IF left # m_end THEN t.begin ELSE right)

link_nodes(t, left, right) ==
    LET d1 == IF left # m_end
              THEN [t.data EXCEPT ![left].next = right]
              ELSE t.data
        b1 == IF left # m_end THEN t.begin ELSE right
        d2 == IF right # m_end
              THEN [d1 EXCEPT ![right].prev = left]
              ELSE d1
    IN  Table(d2, t.size, b1)

\* mutant of remove_node: the slot of the removed entry is made Empty
remove_node_empties(t, pos) ==
    LET t1 == link_nodes(t, t.data[pos].prev, t.data[pos].next)
    IN  Table([t1.data EXCEPT ![pos] = EmptySlot], t1.size - 1, t1.begin)

\* mutant of remove_node: the count is not decremented
remove_node_keeps_size(t, pos) ==
    LET t1 == link_nodes(t, t.data[pos].prev, t.data[pos].next)
    IN  Table([t1.data EXCEPT ![pos] = ErasedSlot], t1.size, t1.begin)

remove_node(t, pos) ==
    LET t1 == link_nodes(t, t.data[pos].prev, t.data[pos].next)
    IN  Table([t1.data EXCEPT ![pos] = ErasedSlot], t1.size - 1, t1.begin)

reset(t) == Table(t.data, 0, m_end)

(***************************************************************************)
(* rehash / reserve                                                        *)
(***************************************************************************)
\* the inner loop of rehash: first slot of the probe sequence not in use
\* mutant of rehash_probe: the start index is taken without probing
rehash_probe_no_probe(data, size, start, step, pos) == start

RECURSIVE rehash_probe(_, _, _, _, _)
rehash_probe(data, size, start, step, pos) ==
    IF is_used(data[pos])
    THEN rehash_probe(data, size, start, step + 1,
                      CollisionPolicy_next(start, step + 1, size))
    ELSE pos

\* the outer loop of rehash: walks the old list from cur
RECURSIVE rehash_loop(_, _, _)
rehash_loop(t, old_data, cur) ==
    IF cur = m_end THEN t
    ELSE LET start == index(t.data, old_data[cur].key)
             pos == rehash_probe(t.data, BucketCount(t.data), start, 0, start)
         IN  rehash_loop(insert_at(t, pos, old_data[cur].key, old_data[cur].val),
                         old_data, old_data[cur].next)

\* mutant of rehash: an array whose size stays the same is kept as it is
rehash_keeps_same_size(t, count) ==
    IF new_size(count, BucketCount(t.data)) = BucketCount(t.data) THEN t
    ELSE rehash_loop(reset(Table(FreshData(new_size(count, BucketCount(t.data))),
                                 0, m_end)),
                     t.data, t.begin)

\* mutant of rehash: the entries are re-inserted a second time, which
\* restores their order
rehash_twice(t, count) ==
    LET fresh == reset(Table(FreshData(new_size(count, BucketCount(t.data))), 0, m_end))
        once == rehash_loop(fresh, t.data, t.begin)
    IN  rehash_loop(fresh, once.data, once.begin)

rehash(t, count) ==
    rehash_loop(reset(Table(FreshData(new_size(count, BucketCount(t.data))), 0, m_end)),
                t.data, t.begin)

\* mutant of reserve: no headroom for the load factor
reserve_no_headroom(t, count) == rehash(t, count)

reserve(t, count) == rehash(t, buckets_number(count))

(***************************************************************************)
(* Insertion.  An operation's outcome is Res(t, pos, flag): the table it   *)
(* leaves, the position of the iterator it returns (NoReturn when its      *)
(* probe loop never exits) and the bool it returns.                        *)
(***************************************************************************)
Res(t, pos, flag) == [t |-> t, pos |-> pos, flag |-> flag]

\* mutant of grow_if_needed: the array is rebuilt before every insertion
grow_if_needed_always(t) == reserve(t, t.size + 1)

\* mutant of grow_if_needed: the entry about to be added is not counted
grow_if_needed_when_over(t) ==
    IF need_rehash(t.size, BucketCount(t.data))
    THEN reserve(t, t.size + 1)
    ELSE t

\* the growth step that opens try_emplace_impl, common_emplace and insert_impl
grow_if_needed(t) ==
    IF need_rehash(t.size + 1, BucketCount(t.data))
    THEN reserve(t, t.size + 1)
    ELSE t

\* mutant of try_emplace_impl: an existing entry is overwritten
try_emplace_impl_overwrites(t, key, val) ==
    LET t1 == grow_if_needed(t)
        pos == find_insertion_pos(t1.data, key)
    IN  IF pos = NoReturn THEN Res(t1, NoReturn, FALSE)
        ELSE IF ~is_used(t1.data[pos])
        THEN Res(insert_at(t1, pos, key, val), pos, TRUE)
        ELSE Res(Table([t1.data EXCEPT ![pos].val = val], t1.size, t1.begin),
                 pos, FALSE)

try_emplace_impl(t, key, val) ==
    LET t1 == grow_if_needed(t)
        pos == find_insertion_pos(t1.data, key)
    IN  IF pos = NoReturn THEN Res(t1, NoReturn, FALSE)
        ELSE IF ~is_used(t1.data[pos])
        THEN Res(insert_at(t1, pos, key, val), pos, TRUE)
        ELSE Res(t1, pos, FALSE)

\* insert(const value_type &), try_emplace(key, args...)
generic_try_emplace(t, key, val) ==
    LET r == try_emplace_impl(t, key, val)
    IN  Res(r.t, r.pos, t.size # r.t.size)

\* emplace(args...)
common_emplace(t, key, val) ==
    LET t1 == grow_if_needed(t)
        pos == find_insertion_pos(t1.data, key)
    IN  IF pos = NoReturn THEN Res(t1, NoReturn, FALSE)
        ELSE LET used == is_used(t1.data[pos])
             IN  Res(IF ~used THEN insert_at(t1, pos, key, val) ELSE t1, pos, ~used)

generic_insert_or_assign(t, key, val) ==
    LET result == generic_try_emplace(t, key, val)
    IN  IF result.pos # NoReturn /\ ~result.flag
        THEN Res(Table([result.t.data EXCEPT ![result.pos].val = val],
                       result.t.size, result.t.begin),
                 result.pos, result.flag)
        ELSE result

\* operator[]: the mapped value is value-initialised when the key is new
generic_subscript_operator(t, key) == try_emplace_impl(t, key, DefaultValue)

\* insert(InputIt first, InputIt last) over the elements of init from i on
RECURSIVE insert_range(_, _, _)
insert_range(t, init, i) ==
    IF i > Len(init) THEN Res(t, m_end, FALSE)
    ELSE LET r == generic_try_emplace(t, init[i][1], init[i][2])
         IN  IF r.pos = NoReturn THEN r
             ELSE insert_range(r.t, init, i + 1)

\* insert(std::initializer_list<value_type>)
insert_list(t, init) ==
    insert_range(IF need_rehash(t.size + Len(init), BucketCount(t.data))
                 THEN reserve(t, t.size + Len(init))
                 ELSE t,
                 init, 1)

(***************************************************************************)
(* Erasure and clear.                                                      *)
(***************************************************************************)
\* erase(const key_type &): flag is the returned count as a bool
erase_key(t, key) ==
    LET pos == search(t.data, key)
    IN  IF pos = NoReturn THEN Res(t, NoReturn, FALSE)
        ELSE IF is_used(t.data[pos])
        THEN Res(remove_node(t, pos), pos, TRUE)
        ELSE Res(t, pos, FALSE)

\* mutant of erase_pos: the returned iterator is at the erased slot
erase_pos_returns_erased(t, pos) == Res(remove_node(t, pos), pos, TRUE)

\* erase(const_iterator pos): the returned iterator is at next
erase_pos(t, pos) == Res(remove_node(t, pos), t.data[pos].next, TRUE)

RECURSIVE erase_range_loop(_, _, _)
erase_range_loop(t, it, lst) ==
    IF it = lst THEN t
    ELSE erase_range_loop(Table([t.data EXCEPT ![it] = ErasedSlot], t.size - 1, t.begin),
                          t.data[it].next, lst)

\* mutant of erase_range: the list is not relinked around the range
erase_range_no_relink(t, first, lst) ==
    Res(erase_range_loop(t, first, lst), lst, TRUE)

\* erase(const_iterator first, const_iterator last); first is dereferenced
erase_range(t, first, lst) ==
    Res(erase_range_loop(link_nodes(t, t.data[first].prev, lst), first, lst),
        lst, TRUE)

RECURSIVE clear_loop(_, _)
clear_loop(data, it) ==
    IF it = m_end THEN data
    ELSE clear_loop([data EXCEPT ![it] = EmptySlot], data[it].next)

clear(t) == reset(Table(clear_loop(t.data, t.begin), t.size, t.begin))

(***************************************************************************)
(* Traversal: the positions visited by iterating from it, in order.  The   *)
(* fuel stops the walk of a list that has a cycle.                         *)
(***************************************************************************)
RECURSIVE Walk(_, _, _)
Walk(data, it, fuel) ==
    IF it = m_end \/ fuel = 0 THEN <<>>
    ELSE IF ~is_used(data[it]) THEN <<it>>
    ELSE <<it>> \o Walk(data, data[it].next, fuel - 1)

Traversal(data, begin) == Walk(data, begin, BucketCount(data) + 1)

\* positions from it up to the end of the list, and end() itself
RECURSIVE Reachable(_, _)
Reachable(data, it) ==
    IF it = m_end THEN {m_end} ELSE {it} \cup Reachable(data, data[it].next)

(***************************************************************************)
(* operator==: 1 for true, 0 for false, NoReturn when a find of the loop   *)
(* never returns.                                                          *)
(***************************************************************************)
\* the loop of operator== over the entries of lhs from it on
RECURSIVE operator_eq_loop(_, _, _)
operator_eq_loop(lhs, rhs, it) ==
    IF it = m_end THEN 1
    ELSE LET pos == find(rhs.data, lhs.data[it].key)
         IN  IF pos = NoReturn THEN NoReturn
             ELSE IF pos = m_end \/ rhs.data[pos].val # lhs.data[it].val THEN 0
             ELSE operator_eq_loop(lhs, rhs, lhs.data[it].next)

operator_eq(lhs, rhs) ==
    IF lhs.size # rhs.size THEN 0
    ELSE operator_eq_loop(lhs, rhs, lhs.begin)

\* HashMap(std::initializer_list<value_type> init): the table it constructs
HashMap_of(init) ==
    insert_range(reset(Table(FreshData(new_size(buckets_number(Len(init)),
                                                DefaultBuckets)), 0, m_end)),
                 init, 1).t

(***************************************************************************)
(* The state machine.                                                      *)
(***************************************************************************)
Init ==
    /\ policy \in {"Linear", "Quadratic"}
    /\ \E expected_max_size \in 0 .. (MaxBuckets \div 2) :
          /\ new_size(buckets_number(expected_max_size), DefaultBuckets) <= MaxBuckets
          /\ m_data = FreshData(new_size(buckets_number(expected_max_size), DefaultBuckets))
    /\ m_size = 0
    /\ m_begin = m_end
    /\ hung = FALSE
    /\ inserted = <<>>
    /\ call = NoCall

\* A call runs with outcome r.  A call whose probe loop never exits leaves
\* the program inside it (hung): no later call is made.
Step(r) ==
    /\ ~hung
    /\ BucketCount(r.t.data) <= MaxBuckets
    /\ m_data' = r.t.data
    /\ m_size' = r.t.size
    /\ m_begin' = r.t.begin
    /\ hung' = (r.pos = NoReturn)
    /\ UNCHANGED policy

Do(r) == Step(r) /\ UNCHANGED <<inserted, call>>

Insert == \E k \in Keys, v \in Values : Do(generic_try_emplace(This, k, v))

Emplace == \E k \in Keys, v \in Values : Do(common_emplace(This, k, v))

InsertOrAssign ==
    \E k \in Keys, v \in Values :
        Do(generic_insert_or_assign(This, k, v))

Subscript == \E k \in Keys : Do(generic_subscript_operator(This, k))

\* the initializer lists passed to insert: n pairs with one mapped value,
\* whose keys repeat one key (d = 0) or run over successive keys (d = 1)
InitLists ==
    {[i \in 1 .. n |-> <<(k + (i - 1) * d) % (MaxKey + 1), v>>] :
        n \in 0 .. MaxInit, k \in Keys, d \in {0, 1}, v \in Values}

InsertList == \E init \in InitLists : Do(insert_list(This, init))

EraseKey == \E k \in Keys : Do(erase_key(This, k))

EraseIterator ==
    \E pos \in DOMAIN m_data :
        /\ is_used(m_data[pos])
        /\ Do(erase_pos(This, pos))

EraseRange ==
    \E first \in DOMAIN m_data :
        /\ is_used(m_data[first])
        /\ \E lst \in Reachable(m_data, first) :
              Do(erase_range(This, first, lst))

Clear == Do(Res(clear(This), m_end, FALSE))

Rehash ==
    \E count \in 0 .. MaxBuckets :
        Do(Res(rehash(This, count), m_end, FALSE))

Reserve ==
    \E count \in 0 .. (MaxBuckets \div 2) :
        Do(Res(reserve(This, count), m_end, FALSE))

\* find(key); flag tells whether the returned iterator differs from end()
Find ==
    \E k \in Keys :
        Do(Res(This, find(m_data, k), find(m_data, k) \notin {m_end, NoReturn}))

\* at(key); flag tells whether std::out_of_range is thrown
At ==
    \E k \in Keys :
        Do(Res(This, IF at(m_data, k) = NoReturn THEN NoReturn ELSE m_end,
               at(m_data, k) = out_of_range))

\* the tables that a table is compared with
Others == {HashMap_of(init) : init \in InitLists}

\* *this == other and other == *this; flag tells whether both are true
Equals ==
    \E other \in Others :
        LET ab == operator_eq(This, other)
            ba == operator_eq(other, This)
        IN  Do(Res(This, IF NoReturn \in {ab, ba} THEN NoReturn ELSE m_end,
                   ab = 1 /\ ba = 1))

Next ==
    \/ Insert
    \/ Emplace
    \/ InsertOrAssign
    \/ Subscript
    \/ InsertList
    \/ EraseKey
    \/ EraseIterator
    \/ EraseRange
    \/ Clear
    \/ Rehash
    \/ Reserve
    \/ Find
    \/ At
    \/ Equals

Spec == Init /\ [][Next]_vars

(***************************************************************************)
(* Observations used by the properties.                                    *)
(***************************************************************************)
Occupied(data) == {i \in DOMAIN data : is_used(data[i])}

SlotOf(data, key) == {i \in Occupied(data) : data[i].key = key}

Present(data, key) == SlotOf(data, key) # {}

TypeOK ==
    /\ m_size \in 0 .. MaxBuckets
    /\ m_begin \in DOMAIN m_data \cup {m_end}
    /\ hung \in BOOLEAN
    /\ BucketCount(m_data) <= MaxBuckets

Erased(data) == {i \in DOMAIN data : ~is_used(data[i]) /\ ~is_empty(data[i])}

\* the set of elements of a sequence
Range(seq) == {seq[i] : i \in DOMAIN seq}

\* every call the properties quantify over: the calls of Next and, beyond
\* them, the calls whose growth the model's guard on MaxBuckets cuts off
Counts == 0 .. (MaxBuckets + 2)

(***************************************************************************)
(* C1: size() equals the number of Occupied slots, and no two Occupied     *)
(* slots hold equal keys, in every reachable state.                        *)
(***************************************************************************)
C1_SizeCountsOccupiedKeysUnique ==
    /\ m_size = Cardinality(Occupied(m_data))
    /\ \A i, j \in Occupied(m_data) : m_data[i].key = m_data[j].key => i = j

\* insertions, a growth and erasures have happened: three entries share a
\* grown array with a tombstone
C1_Witness ==
    /\ m_size >= 3
    /\ Erased(m_data) # {}
    /\ BucketCount(m_data) > DefaultBuckets

(***************************************************************************)
(* C5: size() <= bucket_count() / 2 in every reachable state, so after     *)
(* every completed insertion of any kind.                                  *)
(***************************************************************************)
C5_LoadFactorAtMostHalf == m_size <= BucketCount(m_data) \div 2

\* insertions have filled the array to exactly half, and one more has grown it
C5_Witness ==
    /\ BucketCount(m_data) > DefaultBuckets
    /\ m_size = (DefaultBuckets \div 2) + 1
    /\ Erased(m_data) = {}

(***************************************************************************)
(* C6: the traversal list is a well-formed doubly-linked list over exactly *)
(* the Occupied slots: from the head it reaches the sentinel after size()  *)
(* steps, visits every Occupied slot once and no other slot, the head's    *)
(* prev is the sentinel, and prev of every successor is its predecessor.   *)
(***************************************************************************)
C6_TraversalListWellFormed ==
    LET tr == Traversal(m_data, m_begin)
    IN  /\ Len(tr) = m_size
        /\ Range(tr) = Occupied(m_data)
        /\ Cardinality(Range(tr)) = Len(tr)
        /\ m_begin # m_end => m_data[m_begin].prev = m_end
        /\ \A s \in Range(tr) :
              is_used(m_data[s]) /\ m_data[s].next # m_end =>
                  /\ m_data[s].next \in Occupied(m_data)
                  /\ m_data[m_data[s].next].prev = s

\* an erase has unlinked an entry that lay between two others, which are
\* now linked to each other
C6_Witness ==
    /\ m_size >= 2
    /\ \E i \in Erased(m_data) :
          /\ m_begin # m_end
          /\ m_begin > i
          /\ m_data[m_begin].next # m_end
          /\ m_data[m_begin].next < i

\* the mapped value stored with key (key is present)
ValueOf(data, key) == data[CHOOSE i \in SlotOf(data, key) : TRUE].val

HasEmpty(data) == \E i \in DOMAIN data : is_empty(data[i])

(***************************************************************************)
(* C2: find(k) returns an iterator to the entry with key k (contains(k)    *)
(* true, count(k) 1) if some Occupied slot holds k and end() otherwise     *)
(* (contains false); insert(k) followed by find(k) returns the inserted    *)
(* entry; erase(k) followed by find(k) returns end().                      *)
(***************************************************************************)
FindAgrees(data, k) ==
    IF Present(data, k)
    THEN find(data, k) \in SlotOf(data, k) /\ contains(data, k) = 1
    ELSE find(data, k) = m_end /\ contains(data, k) = 0

C2_FindIffPresent ==
    ~hung =>
      \A k \in Keys :
         /\ FindAgrees(m_data, k)
         /\ \A v \in Values :
               LET r == generic_try_emplace(This, k, v)
               IN  r.pos # NoReturn => find(r.t.data, k) = r.pos
         /\ LET e == erase_key(This, k)
            IN  e.pos # NoReturn => find(e.t.data, k) = m_end

\* the part of C2 that the code keeps: find is right whenever the array has
\* an Empty slot
C2_FindIffPresentWithEmptySlot ==
    HasEmpty(m_data) => \A k \in Keys : FindAgrees(m_data, k)

(***************************************************************************)
(* C3: the probe loop of find, contains, erase(key), bucket and insert     *)
(* terminates for every key in every reachable state.                      *)
(***************************************************************************)
C3_ProbeLoopTerminates ==
    /\ ~hung
    /\ \A k \in Keys :
          /\ search(m_data, k) # NoReturn
          /\ find_insertion_pos(m_data, k) # NoReturn
          /\ find_insertion_pos(grow_if_needed(This).data, k) # NoReturn

(***************************************************************************)
(* C4: when insert starts probing for its slot (after any growth), at      *)
(* least one slot of the array is Empty.                                   *)
(***************************************************************************)
C4_InsertProbesArrayWithEmptySlot == HasEmpty(grow_if_needed(This).data)

(***************************************************************************)
(* C7: insert, try_emplace and emplace of a present key return inserted =  *)
(* false and an iterator to the existing entry, and leave its mapped value *)
(* and size() unchanged, also when size() = bucket_count() / 2.            *)
(***************************************************************************)
NotInserted(r, k) ==
    /\ r.pos # NoReturn
    /\ ~r.flag
    /\ r.pos \in SlotOf(r.t.data, k)
    /\ r.t.data[r.pos].val = ValueOf(m_data, k)
    /\ r.t.size = m_size

C7_InsertPresentKeyKeepsValue ==
    \A k \in Keys :
       Present(m_data, k) =>
          \A v \in Values :
             /\ NotInserted(generic_try_emplace(This, k, v), k)
             /\ NotInserted(common_emplace(This, k, v), k)

\* the array is exactly half full, and insert of a present key with another
\* mapped value grows the array and reports inserted = false
C7_Witness ==
    /\ ~hung
    /\ m_size = BucketCount(m_data) \div 2
    /\ \E k \in Keys :
          /\ Present(m_data, k)
          /\ ValueOf(m_data, k) = OtherValue
          /\ LET r == generic_try_emplace(This, k, DefaultValue)
             IN  /\ ~r.flag
                 /\ BucketCount(r.t.data) > BucketCount(m_data)

(***************************************************************************)
(* C8: insert_or_assign(k, v): with k present it returns inserted = false, *)
(* the entry for k then holds v and size() is unchanged; with k absent it  *)
(* returns inserted = true, size() grows by one and find(k) yields v.  The *)
(* returned iterator designates the entry for k in the table as left.      *)
(***************************************************************************)
C8_InsertOrAssign ==
    ~hung =>
      \A k \in Keys, v \in Values :
         LET r == generic_insert_or_assign(This, k, v)
         IN  /\ r.pos # NoReturn
             /\ r.pos \in SlotOf(r.t.data, k)
             /\ r.t.data[r.pos].val = v
             /\ find(r.t.data, k) = r.pos
             /\ IF Present(m_data, k)
                THEN ~r.flag /\ r.t.size = m_size
                ELSE r.flag /\ r.t.size = m_size + 1

\* the part of C8 that the code keeps: the claim for every call that returns
C8_InsertOrAssignWhenReturning ==
    ~hung =>
      \A k \in Keys, v \in Values :
         LET r == generic_insert_or_assign(This, k, v)
         IN  r.pos # NoReturn =>
               /\ r.pos \in SlotOf(r.t.data, k)
               /\ r.t.data[r.pos].val = v
               /\ find(r.t.data, k) = r.pos
               /\ IF Present(m_data, k)
                  THEN ~r.flag /\ r.t.size = m_size
                  ELSE r.flag /\ r.t.size = m_size + 1

(***************************************************************************)
(* C9: erase(key) of an absent key returns 0 and leaves the table          *)
(* unchanged; erase(key) of a present key returns 1, decrements size() by  *)
(* one and turns exactly that key's slot into a Tombstone.                 *)
(***************************************************************************)
ErasedExactly(r, k) ==
    IF Present(m_data, k)
    THEN /\ r.flag
         /\ r.t.size = m_size - 1
         /\ BucketCount(r.t.data) = BucketCount(m_data)
         /\ \A i \in DOMAIN m_data :
               IF i \in SlotOf(m_data, k)
               THEN r.t.data[i].st = "Erased"
               ELSE /\ r.t.data[i].st = m_data[i].st
                    /\ r.t.data[i].key = m_data[i].key
                    /\ r.t.data[i].val = m_data[i].val
    ELSE ~r.flag /\ r.t = This

C9_EraseKey ==
    ~hung =>
      \A k \in Keys :
         LET r == erase_key(This, k)
         IN  r.pos # NoReturn /\ ErasedExactly(r, k)

\* the part of C9 that the code keeps: the claim for every call that returns
C9_EraseKeyWhenReturning ==
    ~hung =>
      \A k \in Keys :
         LET r == erase_key(This, k)
         IN  r.pos # NoReturn => ErasedExactly(r, k)

(***************************************************************************)
(* C10: every rehash (rehash, reserve, growth inside an insertion) keeps   *)
(* the set of keys, the mapped value of each key, and size().              *)
(***************************************************************************)
SameContent(t) ==
    /\ t.size = m_size
    /\ Cardinality(Occupied(t.data)) = Cardinality(Occupied(m_data))
    /\ \A k \in Keys :
          /\ Present(t.data, k) <=> Present(m_data, k)
          /\ Present(m_data, k) =>
                /\ Present(t.data, k)
                /\ ValueOf(t.data, k) = ValueOf(m_data, k)

C10_RehashPreservesContent ==
    /\ \A count \in Counts :
          /\ SameContent(rehash(This, count))
          /\ SameContent(reserve(This, count))
    /\ SameContent(grow_if_needed(This))

\* entries holding different mapped values share an exactly half-full array
\* with a tombstone: rehash in place drops the tombstone and leaves a key
\* away from its start index, and the growth of the next insertion moves
\* the entries to a larger array
C10_Witness ==
    /\ ~hung
    /\ m_size >= 2
    /\ Erased(m_data) # {}
    /\ \E i, j \in Occupied(m_data) : m_data[i].val # m_data[j].val
    /\ LET t == rehash(This, 0)
       IN  /\ Erased(t.data) = {}
           /\ \E i \in Occupied(t.data) : index(t.data, t.data[i].key) # i
    /\ BucketCount(grow_if_needed(This).data) > BucketCount(m_data)

(***************************************************************************)
(* C11: a single-entry insertion grows the array iff size() + 1 >          *)
(* bucket_count() / 2 when it is called; the growth doubles the array and  *)
(* is complete before the slot is probed, so the returned slot is the one  *)
(* the probe finds in the array after the growth; after a growing          *)
(* insertion every key is findable.  From a floor-sized array, insertions  *)
(* up to half of the floor do not grow it and the next one doubles it.     *)
(***************************************************************************)
\* the single-entry insertions of key k with mapped value v
Insertions(k, v) ==
    {generic_try_emplace(This, k, v), common_emplace(This, k, v),
     generic_insert_or_assign(This, k, v), generic_subscript_operator(This, k)}

C11_GrowthIffThresholdBeforeProbe ==
    \A k \in Keys, v \in Values :
       \A r \in Insertions(k, v) :
          LET due == m_size + 1 > BucketCount(m_data) \div 2
              grown == IF due THEN rehash(This, 2 * (m_size + 1)).data ELSE m_data
          IN  /\ BucketCount(r.t.data) > BucketCount(m_data) <=> due
              /\ BucketCount(r.t.data) = BucketCount(grown)
              /\ r.pos = find_insertion_pos(grown, k)
              /\ due =>
                   /\ BucketCount(r.t.data) = 2 * BucketCount(m_data)
                   /\ r.pos \in SlotOf(r.t.data, k)
                   /\ \A k2 \in Keys :
                         Present(m_data, k2) \/ k2 = k =>
                            find(r.t.data, k2) \in SlotOf(r.t.data, k2)
              /\ ~due /\ r.pos # NoReturn =>
                   \A i \in DOMAIN m_data :
                      i # r.pos => r.t.data[i].st = m_data[i].st

\* a floor-sized array without tombstones is exactly half full (no insertion
\* has grown it), and the insertion of a further key doubles it and places
\* the key at a slot that differs from the one the old array would give
C11_Witness ==
    /\ ~hung
    /\ BucketCount(m_data) = DefaultBuckets
    /\ m_size = DefaultBuckets \div 2
    /\ Erased(m_data) = {}
    /\ \E k \in Keys :
          /\ ~Present(m_data, k)
          /\ LET r == generic_try_emplace(This, k, OtherValue)
             IN  /\ r.flag
                 /\ BucketCount(r.t.data) = 2 * DefaultBuckets
                 /\ r.pos # find_insertion_pos(m_data, k)

(***************************************************************************)
(* C12: clear() resets every slot to Empty, Tombstones included, resets    *)
(* size() to 0 and the head to the sentinel, and keeps bucket_count().     *)
(***************************************************************************)
C12_ClearResetsEverySlot ==
    LET t == clear(This)
    IN  /\ \A i \in DOMAIN t.data : is_empty(t.data[i])
        /\ t.size = 0
        /\ t.begin = m_end
        /\ BucketCount(t.data) = BucketCount(m_data)

\* what clear() does: the slots of the traversal list become Empty, every
\* other slot (Tombstones included) is left as it is
C12_ClearResetsListedSlots ==
    LET t == clear(This)
    IN  /\ \A i \in DOMAIN m_data :
              t.data[i] = IF is_used(m_data[i]) THEN EmptySlot ELSE m_data[i]
        /\ t.size = 0
        /\ t.begin = m_end
        /\ BucketCount(t.data) = BucketCount(m_data)

(***************************************************************************)
(* C13 (as stated): rehash(min_capacity) leaves bucket_count() equal to    *)
(* the smallest power of two that is at least 2 * min_capacity and at      *)
(* least the floor.                                                        *)
(***************************************************************************)
\* the smallest power of two that is at least n and at least the floor
RoundUpPow2(n) ==
    LET powers == {Pow2(j) : j \in FloorLog2 .. (FloorLog2 + 4)}
    IN  CHOOSE p \in powers :
           /\ p >= n
           /\ \A q \in powers : q >= n => p <= q

C13_RehashRoundsUpDoubledFromFloor ==
    \A count \in Counts :
       BucketCount(rehash(This, count).data) = RoundUpPow2(2 * count)

(***************************************************************************)
(* C13 (amended): rehash(count) leaves bucket_count() equal to the first   *)
(* of bucket_count(), 2 * bucket_count(), 4 * bucket_count(), ... that is  *)
(* at least count (count is a number of slots and is not doubled; the      *)
(* array never gets smaller); reserve(count) does so for 2 * count.        *)
(***************************************************************************)
\* n is the first of old, 2 * old, 4 * old, ... that is at least wanted
FirstDoublingAtLeast(n, old, wanted) ==
    /\ n >= wanted
    /\ \E j \in 0 .. 4 : n = old * Pow2(j)
    /\ n = old \/ n \div 2 < wanted

C13_RehashDoublesCurrentUpToCount ==
    \A count \in Counts :
       /\ FirstDoublingAtLeast(BucketCount(rehash(This, count).data),
                               BucketCount(m_data), count)
       /\ FirstDoublingAtLeast(BucketCount(reserve(This, count).data),
                               BucketCount(m_data), 2 * count)

\* a grown array holds entries: rehash of a count above the floor but below
\* bucket_count() keeps the array, where the doubled count would ask for
\* more; rehash(0) does not go back to the floor; rehash of bucket_count()
\* + 1 doubles the array
C13_Witness ==
    /\ ~hung
    /\ m_size >= 1
    /\ BucketCount(m_data) > DefaultBuckets
    /\ \E count \in Counts :
          /\ count > DefaultBuckets
          /\ BucketCount(rehash(This, count).data) = BucketCount(m_data)
          /\ RoundUpPow2(2 * count) > BucketCount(m_data)
    /\ BucketCount(rehash(This, 0).data) = BucketCount(m_data)
    /\ BucketCount(rehash(This, BucketCount(m_data) + 1).data) = 2 * BucketCount(m_data)

(***************************************************************************)
(* C14: every rehash (rehash, reserve, the growth inside an insertion)     *)
(* inverts the iteration order: the keys met from begin() after it are the *)
(* keys met before it, in reverse.  An insertion of a new key puts it in   *)
(* front of the others, so that keys inserted into an empty table are met  *)
(* latest first, and after a rehash earliest first.                        *)
(***************************************************************************)
\* the keys met by iterating the table t from begin()
TraversalKeys(t) ==
    LET tr == Traversal(t.data, t.begin)
    IN  [i \in 1 .. Len(tr) |-> t.data[tr[i]].key]

Reverse(seq) == [i \in 1 .. Len(seq) |-> seq[Len(seq) + 1 - i]]

C14_RehashInvertsIterationOrder ==
    LET before == TraversalKeys(This)
    IN  /\ \A count \in Counts :
              /\ TraversalKeys(rehash(This, count)) = Reverse(before)
              /\ TraversalKeys(reserve(This, count)) = Reverse(before)
        /\ \A k \in Keys :
              ~Present(m_data, k) =>
                 LET r == generic_try_emplace(This, k, OtherValue)
                 IN  r.pos # NoReturn =>
                        TraversalKeys(r.t) =
                           <<k>> \o (IF BucketCount(r.t.data) = BucketCount(m_data)
                                     THEN before ELSE Reverse(before))

\* three keys, the smallest met first and the largest last, in an array with
\* a tombstone: a rehash meets the largest first
C14_Witness ==
    /\ ~hung
    /\ m_size = 3
    /\ Erased(m_data) # {}
    /\ LET before == TraversalKeys(This)
           after == TraversalKeys(rehash(This, 0))
       IN  /\ before[1] < before[2]
           /\ before[2] < before[3]
           /\ after[1] = before[3]
           /\ after[3] = before[1]

(***************************************************************************)
(* C15: at(key) returns the mapped value of a present key and signals      *)
(* std::out_of_range for an absent key; it writes nothing to the table.    *)
(***************************************************************************)
C15_AtReturnsValueOrSignalsAbsence ==
    ~hung =>
      \A k \in Keys :
         at(m_data, k) = IF Present(m_data, k)
                         THEN ValueOf(m_data, k)
                         ELSE out_of_range

\* the part of C15 that the code keeps: the claim for every call that is left
C15_AtWhenReturning ==
    ~hung =>
      \A k \in Keys :
         at(m_data, k) # NoReturn =>
            at(m_data, k) = IF Present(m_data, k)
                            THEN ValueOf(m_data, k)
                            ELSE out_of_range

(***************************************************************************)
(* C16: a == b holds iff a and b hold the same keys with equal mapped      *)
(* values, whatever their insertion order, iteration order, tombstones and *)
(* bucket_count(); so a == b iff b == a.                                   *)
(***************************************************************************)
SameEntries(a, b) ==
    \A k \in Keys :
       /\ Present(a.data, k) <=> Present(b.data, k)
       /\ Present(a.data, k) /\ Present(b.data, k) =>
             ValueOf(a.data, k) = ValueOf(b.data, k)

\* the tables this table is compared with: constructed tables, and tables
\* made from this one that differ from it in layout, order or content
ComparedWith ==
    Others
    \cup {rehash(This, count) : count \in {0, 2 * BucketCount(m_data)}}
    \cup {remove_node(This, i) : i \in Occupied(m_data)}
    \cup {Table([m_data EXCEPT ![i].val = OtherValue], m_size, m_begin) :
             i \in Occupied(m_data)}

EqualIffSameEntries(a, b) ==
    operator_eq(a, b) = IF SameEntries(a, b) THEN 1 ELSE 0

C16_EqualityIsOrderIndependent ==
    ~hung =>
      \A b \in ComparedWith :
         /\ EqualIffSameEntries(This, b)
         /\ EqualIffSameEntries(b, This)

\* the part of C16 that the code keeps: the claim for every comparison that
\* returns
C16_EqualityWhenReturning ==
    ~hung =>
      \A b \in ComparedWith :
         /\ operator_eq(This, b) # NoReturn => EqualIffSameEntries(This, b)
         /\ operator_eq(b, This) # NoReturn => EqualIffSameEntries(b, This)

(***************************************************************************)
(* C17: bucket_count() is a power of two and at least the floor in every   *)
(* reachable state, and no step makes it smaller.                          *)
(***************************************************************************)
IsPow2(n) == \E j \in 0 .. (FloorLog2 + 4) : n = Pow2(j)

C17_BucketCountPow2NeverShrinks ==
    /\ [](IsPow2(BucketCount(m_data)) /\ BucketCount(m_data) >= DefaultBuckets)
    /\ [][BucketCount(m_data') >= BucketCount(m_data)]_vars

\* an array above the floor holds a tombstone and a single entry: clear(),
\* rehash(0) and reserve(0) keep its size
C17_Witness ==
    /\ ~hung
    /\ BucketCount(m_data) > DefaultBuckets
    /\ m_size = 1
    /\ Erased(m_data) # {}
    /\ BucketCount(clear(This).data) = BucketCount(m_data)
    /\ BucketCount(rehash(This, 0).data) = BucketCount(m_data)
    /\ BucketCount(reserve(This, 0).data) = BucketCount(m_data)

(***************************************************************************)
(* C18: erase(key) and erase(iterator) of one entry leave every other      *)
(* Occupied slot with its index, key and value, keep the order of the      *)
(* remaining entries, and an iterator at another entry still meets exactly *)
(* the remaining entries that followed it; erase(iterator) returns the     *)
(* iterator to the entry that followed the erased one (end() if none).     *)
(***************************************************************************)
\* seq without the element x
Without(seq, x) == SelectSeq(seq, LAMBDA y : y # x)

\* the positions met by advancing an iterator at slot s to the end
Following(data, s) == Walk(data, s, BucketCount(data) + 1)

OthersUntouched(r, pos) ==
    /\ r.pos # NoReturn
    /\ r.t.size = m_size - 1
    /\ ~is_used(r.t.data[pos])
    /\ \A i \in Occupied(m_data) \ {pos} :
          /\ is_used(r.t.data[i])
          /\ r.t.data[i].key = m_data[i].key
          /\ r.t.data[i].val = m_data[i].val
          /\ Following(r.t.data, i) = Without(Following(m_data, i), pos)
    /\ Traversal(r.t.data, r.t.begin) = Without(Traversal(m_data, m_begin), pos)

C18_SingleEraseKeepsOtherIterators ==
    \A pos \in Occupied(m_data) :
       /\ OthersUntouched(erase_pos(This, pos), pos)
       /\ erase_pos(This, pos).pos = m_data[pos].next
       /\ OthersUntouched(erase_key(This, m_data[pos].key), pos)
       /\ erase_key(This, m_data[pos].key).flag

\* three entries or more: one lies between two others and its erasure
\* returns its successor; the erasure of the last one returns end()
C18_Witness ==
    /\ ~hung
    /\ m_size >= 3
    /\ \E pos \in Occupied(m_data) :
          /\ m_data[pos].prev # m_end
          /\ m_data[pos].next # m_end
          /\ erase_pos(This, pos).pos = m_data[pos].next
          /\ Len(Following(erase_pos(This, pos).t.data, m_data[pos].prev)) =
                Len(Following(m_data, m_data[pos].prev)) - 1
    /\ \E pos \in Occupied(m_data) :
          /\ m_data[pos].next = m_end
          /\ erase_pos(This, pos).pos = m_end

(***************************************************************************)
(* C19: erase(first, last) over a range of the traversal order turns       *)
(* exactly the slots of the range into Tombstones, takes their number off  *)
(* size(), links the entry before first (or the head) to last, keeps the   *)
(* order of the remaining entries, and returns last.                       *)
(***************************************************************************)
\* the positions of the range [first, lst) of the traversal order
RangeSlots(data, first, lst) ==
    {s \in Reachable(data, first) \ {m_end} :
        lst \in Reachable(data, s) /\ s # lst}

RangeErased(r, first, lst) ==
    LET gone == RangeSlots(m_data, first, lst)
        before == m_data[first].prev
    IN  /\ r.pos = lst
        /\ r.t.size = m_size - Cardinality(gone)
        /\ \A i \in DOMAIN m_data :
              IF i \in gone
              THEN r.t.data[i].st = "Erased"
              ELSE /\ r.t.data[i].st = m_data[i].st
                   /\ r.t.data[i].key = m_data[i].key
                   /\ r.t.data[i].val = m_data[i].val
        /\ gone # {} =>
              /\ IF before = m_end
                 THEN r.t.begin = lst
                 ELSE r.t.data[before].next = lst
              /\ lst # m_end => r.t.data[lst].prev = before
        /\ Traversal(r.t.data, r.t.begin) =
              SelectSeq(Traversal(m_data, m_begin), LAMBDA s : s \notin gone)

HashSet_Empty == [st |-> "Empty", key |-> 0, next |-> m_end, prev |-> m_end]

HashSet_Erased == [st |-> "Erased", key |-> 0, next |-> m_end, prev |-> m_end]

HashSet_Node(k) == [st |-> "Node", key |-> k, next |-> m_end, prev |-> m_end]

HashSet_index(data, key, state_read) ==
    MaskRangeHashing_hash(HashSet_m_hash(key, state_read), BucketCount(data))

RECURSIVE HashSet_find_pos_loop(_, _, _, _, _, _, _, _)
HashSet_find_pos_loop(data, size, key, seek_erased, start, step, i, first_erased) ==
    IF step > 2 * size THEN NoReturn
    ELSE IF is_empty(data[i])
    THEN (IF first_erased = size THEN i ELSE first_erased)
    ELSE IF is_used(data[i]) /\ data[i].key = key THEN i
    ELSE HashSet_find_pos_loop(data, size, key, seek_erased, start, step + 1,
                               CollisionPolicy_next(start, step + 1, size),
                               IF ~is_used(data[i]) /\ seek_erased /\ first_erased = size
                               THEN i ELSE first_erased)

HashSet_find_pos(data, key, seek_erased, state_read) ==
    LET size == BucketCount(data)
        start == HashSet_index(data, key, state_read)
    IN  HashSet_find_pos_loop(data, size, key, seek_erased, start, 0, start, size)

HashSet_search(data, key, state_read) == HashSet_find_pos(data, key, FALSE, state_read)

HashSet_find_insertion_pos(data, key, state_read) ==
    HashSet_find_pos(data, key, TRUE, state_read)

HashSet_find(data, key, state_read) ==
    LET pos == HashSet_search(data, key, state_read)
    IN  IF pos = NoReturn THEN NoReturn
        ELSE IF is_used(data[pos]) THEN pos ELSE m_end

HashSet_insert_at(t, pos, key) ==
    LET d1 == [t.data EXCEPT ![pos] = [HashSet_Node(key) EXCEPT !.next = t.begin]]
        d2 == IF t.begin # m_end
              THEN [d1 EXCEPT ![t.begin].prev = pos]
              ELSE d1
    IN  Table(d2, t.size + 1, pos)

HashSet_link_nodes(t, left, right) ==
    LET d1 == IF left # m_end
              THEN [t.data EXCEPT ![left].next = right]
              ELSE t.data
        b1 == IF left # m_end THEN t.begin ELSE right
        d2 == IF right # m_end
              THEN [d1 EXCEPT ![right].prev = left]
              ELSE d1
    IN  Table(d2, t.size, b1)

HashSet_remove_node(t, pos) ==
    LET t1 == HashSet_link_nodes(t, t.data[pos].prev, t.data[pos].next)
    IN  Table([t1.data EXCEPT ![pos] = HashSet_Erased], t1.size - 1, t1.begin)

RECURSIVE HashSet_rehash_probe(_, _, _, _, _)
HashSet_rehash_probe(data, size, start, step, pos) ==
    IF is_used(data[pos])
    THEN HashSet_rehash_probe(data, size, start, step + 1,
                              CollisionPolicy_next(start, step + 1, size))
    ELSE pos

RECURSIVE HashSet_rehash_loop(_, _, _, _)
HashSet_rehash_loop(t, old_data, cur, state_read) ==
    IF cur = m_end THEN t
    ELSE LET start == HashSet_index(t.data, old_data[cur].key, state_read)
             pos == HashSet_rehash_probe(t.data, BucketCount(t.data), start, 0, start)
         IN  HashSet_rehash_loop(HashSet_insert_at(t, pos, old_data[cur].key),
                                 old_data, old_data[cur].next, state_read)

HashSet_rehash(t, count, state_read) ==
    HashSet_rehash_loop(
        Table([i \in 0 .. new_size(count, BucketCount(t.data)) - 1 |-> HashSet_Empty],
              0, m_end),
        t.data, t.begin, state_read)

HashSet_reserve(t, count, state_read) ==
    HashSet_rehash(t, buckets_number(count), state_read)

HashSet_insert_impl(t, key, state_read) ==
    LET t1 == IF need_rehash(t.size + 1, BucketCount(t.data))
              THEN HashSet_reserve(t, t.size + 1, state_read)
              ELSE t
        pos == HashSet_find_insertion_pos(t1.data, key, state_read)
    IN  IF pos = NoReturn THEN Res(t1, NoReturn, FALSE)
        ELSE LET used == is_used(t1.data[pos])
             IN  Res(IF ~used THEN HashSet_insert_at(t1, pos, key) ELSE t1, pos, ~used)

\* insert(InputIt first, InputIt last) over the keys of init from i on
RECURSIVE HashSet_insert_range(_, _, _, _)
HashSet_insert_range(t, init, i, state_read) ==
    IF i > Len(init) THEN Res(t, m_end, FALSE)
    ELSE LET r == HashSet_insert_impl(t, init[i], state_read)
         IN  IF r.pos = NoReturn THEN r
             ELSE HashSet_insert_range(r.t, init, i + 1, state_read)

HashSet_insert_list(t, init, state_read) ==
    HashSet_insert_range(IF need_rehash(t.size + Len(init), BucketCount(t.data))
                         THEN HashSet_reserve(t, t.size + Len(init), state_read)
                         ELSE t,
                         init, 1, state_read)

HashSet_erase_key(t, key, state_read) ==
    LET pos == HashSet_search(t.data, key, state_read)
    IN  IF pos = NoReturn THEN Res(t, NoReturn, FALSE)
        ELSE IF is_used(t.data[pos])
        THEN Res(HashSet_remove_node(t, pos), pos, TRUE)
        ELSE Res(t, pos, FALSE)

HashSet_erase_pos(t, pos) == Res(HashSet_remove_node(t, pos), t.data[pos].next, TRUE)

RECURSIVE HashSet_erase_range_loop(_, _, _)
HashSet_erase_range_loop(t, it, lst) ==
    IF it = lst THEN t
    ELSE HashSet_erase_range_loop(
             Table([t.data EXCEPT ![it] = HashSet_Erased], t.size - 1, t.begin),
             t.data[it].next, lst)

HashSet_erase_range(t, first, lst) ==
    Res(HashSet_erase_range_loop(HashSet_link_nodes(t, t.data[first].prev, lst),
                                 first, lst),
        lst, TRUE)

RECURSIVE HashSet_clear_loop(_, _)
HashSet_clear_loop(data, it) ==
    IF it = m_end THEN data
    ELSE HashSet_clear_loop([data EXCEPT ![it] = HashSet_Empty], data[it].next)

HashSet_clear(t) == Table(HashSet_clear_loop(t.data, t.begin), 0, m_end)

(***************************************************************************)
(* C20: HashSet and HashMap are the same state machine up to the mapped    *)
(* value: from corresponding states, the same operation with the same keys *)
(* leaves the same slot states and keys, links, head, size() and           *)
(* bucket_count(), and returns the same values.  Both start from the same  *)
(* empty array, so the states correspond after every step of a sequence.   *)
(***************************************************************************)
\* the HashSet state that corresponds to the HashMap state t
WithoutValue(t) ==
    Table([i \in DOMAIN t.data |->
              [st |-> t.data[i].st, key |-> t.data[i].key,
               next |-> t.data[i].next, prev |-> t.data[i].prev]],
          t.size, t.begin)

SameStep(rs, rm) ==
    /\ rs.pos = rm.pos
    /\ rs.flag = rm.flag
    /\ rs.t = WithoutValue(rm.t)

KeysOfList(init) == [i \in 1 .. Len(init) |-> init[i][1]]

\* every operation of the two classes agrees, when the calls of m_hash made
\* by the HashSet operation read state_read as the state of the hasher
SameOperations(state_read) ==
    LET set == WithoutValue(This)
    IN  /\ \A k \in Keys :
              /\ \A v \in Values :
                    /\ SameStep(HashSet_insert_impl(set, k, state_read),
                                generic_try_emplace(This, k, v))
                    /\ SameStep(HashSet_insert_impl(set, k, state_read),
                                common_emplace(This, k, v))
              /\ SameStep(HashSet_erase_key(set, k, state_read), erase_key(This, k))
              /\ HashSet_find(set.data, k, state_read) = find(m_data, k)
        /\ \A init \in InitLists :
              SameStep(HashSet_insert_list(set, KeysOfList(init), state_read),
                       insert_list(This, init))
        /\ \A pos \in Occupied(m_data) :
              /\ SameStep(HashSet_erase_pos(set, pos), erase_pos(This, pos))
              /\ \A lst \in Reachable(m_data, pos) :
                    SameStep(HashSet_erase_range(set, pos, lst),
                             erase_range(This, pos, lst))
        /\ HashSet_clear(set) = WithoutValue(clear(This))
        /\ \A count \in Counts :
              /\ HashSet_rehash(set, count, state_read) = WithoutValue(rehash(This, count))
              /\ HashSet_reserve(set, count, state_read) = WithoutValue(reserve(This, count))

\* what a read of the hasher's state through m_hash may yield when the
\* HashSet was constructed with a temporary hasher
DeadHasherReads == 0 .. hasher_state

C20_HashSetIsHashMapWithoutValue ==
    \A state_read \in DeadHasherReads : SameOperations(state_read)

\* the part of C20 that the code keeps: the two classes agree whenever the
\* hasher given to the HashSet outlives it (or has no state to read)
C20_SameWhileHasherAlive == SameOperations(hasher_state)

(***************************************************************************)
(* C21: for an absent key the slot chosen by find_insertion_pos (and       *)
(* returned by bucket(key)) is the first Tombstone on the key's probe      *)
(* sequence if one occurs before the first Empty slot, and that first      *)
(* Empty slot otherwise; for a present key it is the key's own Occupied    *)
(* slot, even when Tombstones precede it; an insertion of the absent key   *)
(* that does not grow the array occupies exactly that slot.                *)
(***************************************************************************)
\* bucket(key)
bucket(data, key) == find_insertion_pos(data, key)

\* the slots of the key's probe sequence, steps 0 .. size - 1
ProbeSequence(data, key) ==
    [j \in 1 .. BucketCount(data) |->
        CollisionPolicy_next(index(data, key), j - 1, BucketCount(data))]

\* the first place of seq whose slot is in the set slots (0 when none is)
FirstIn(seq, slots) ==
    IF \E j \in DOMAIN seq : seq[j] \in slots
    THEN CHOOSE j \in DOMAIN seq :
            /\ seq[j] \in slots
            /\ \A j2 \in DOMAIN seq : seq[j2] \in slots => j <= j2
    ELSE 0

\* the slot the claim names for key
InsertionSlot(data, key) ==
    LET seq == ProbeSequence(data, key)
        empty == FirstIn(seq, {i \in DOMAIN data : is_empty(data[i])})
        tombstone == FirstIn(seq, Erased(data))
    IN  IF Present(data, key) THEN CHOOSE i \in SlotOf(data, key) : TRUE
        ELSE IF tombstone # 0 /\ (empty = 0 \/ tombstone < empty)
        THEN seq[tombstone]
        ELSE seq[empty]

\* an insertion of the absent key k left slot s Occupied with k and no
\* other slot changed its state
OccupiesExactly(r, k, s) ==
    /\ r.pos = s
    /\ r.flag
    /\ SlotOf(r.t.data, k) = {s}
    /\ \A i \in DOMAIN m_data : i # s => r.t.data[i].st = m_data[i].st

InsertionSlotChosen(k) ==
    /\ find_insertion_pos(m_data, k) = InsertionSlot(m_data, k)
    /\ bucket(m_data, k) = InsertionSlot(m_data, k)
    /\ ~Present(m_data, k) /\ ~need_rehash(m_size + 1, BucketCount(m_data)) =>
          \A v \in Values : \A r \in Insertions(k, v) :
             OccupiesExactly(r, k, InsertionSlot(m_data, k))

C21_InsertionSlotSelection == \A k \in Keys : InsertionSlotChosen(k)

\* the same for every key whose insertion probe is left
C21_InsertionSlotWhenReturning ==
    \A k \in Keys :
       find_insertion_pos(m_data, k) # NoReturn => InsertionSlotChosen(k)

\* a present key behind a Tombstone of its probe sequence, and an absent key
\* whose probe sequence meets a Tombstone before its first Empty slot
C21_Witness ==
    /\ \E k \in Keys :
          /\ Present(m_data, k)
          /\ FirstIn(ProbeSequence(m_data, k), Erased(m_data)) # 0
          /\ FirstIn(ProbeSequence(m_data, k), Erased(m_data))
                < FirstIn(ProbeSequence(m_data, k), SlotOf(m_data, k))
    /\ \E k \in Keys :
          /\ ~Present(m_data, k)
          /\ HasEmpty(m_data)
          /\ ~need_rehash(m_size + 1, BucketCount(m_data))
          /\ InsertionSlot(m_data, k) \in Erased(m_data)
          /\ InsertionSlot(m_data, k) # index(m_data, k)

(***************************************************************************)
(* C22: every newly inserted entry becomes the head of the traversal list  *)
(* with the previous head as its successor; in a run without rehash,       *)
(* iterating from begin() yields the present keys in reverse order of      *)
(* their most recent insertion.                                            *)
(*                                                                         *)
(* OrderSpec makes the calls that do not rehash (no rehash, no reserve, no *)
(* insertion that grows the array) and records in inserted what the calls  *)
(* were asked to do: a key that is not recorded is put in front when it is *)
(* inserted, a key is struck when it is erased, clear strikes all.         *)
(***************************************************************************)
\* order after inserting the keys of init from i on, each when not recorded
RECURSIVE InsertedAll(_, _, _)
InsertedAll(order, init, i) ==
    IF i > Len(init) THEN order
    ELSE InsertedAll(IF init[i][1] \in Range(order)
                     THEN order
                     ELSE <<init[i][1]>> \o order,
                     init, i + 1)

\* order without the keys of the set gone
Struck(order, gone) == SelectSeq(order, LAMBDA k : k \notin gone)

Tracked(r, order) ==
    /\ Step(r)
    /\ BucketCount(r.t.data) = BucketCount(m_data)
    /\ inserted' = order
    /\ UNCHANGED call

OrderInsert ==
    \E k \in Keys, v \in Values :
       \E r \in Insertions(k, v) :
          Tracked(r, InsertedAll(inserted, <<<<k, v>>>>, 1))

OrderInsertList ==
    \E init \in InitLists :
       Tracked(insert_list(This, init), InsertedAll(inserted, init, 1))

OrderEraseKey ==
    \E k \in Keys : Tracked(erase_key(This, k), Struck(inserted, {k}))

OrderEraseIterator ==
    \E pos \in DOMAIN m_data :
       /\ is_used(m_data[pos])
       /\ Tracked(erase_pos(This, pos), Struck(inserted, {m_data[pos].key}))

OrderEraseRange ==
    \E first \in DOMAIN m_data :
       /\ is_used(m_data[first])
       /\ \E lst \in Reachable(m_data, first) :
             Tracked(erase_range(This, first, lst),
                     Struck(inserted,
                            {m_data[s].key : s \in RangeSlots(m_data, first, lst)}))

OrderClear == Tracked(Res(clear(This), m_end, FALSE), <<>>)

OrderFind ==
    \E k \in Keys :
       Tracked(Res(This, find(m_data, k), FALSE), inserted)

OrderAt ==
    \E k \in Keys :
       Tracked(Res(This, IF at(m_data, k) = NoReturn THEN NoReturn ELSE m_end,
                   FALSE),
               inserted)

OrderNext ==
    \/ OrderInsert
    \/ OrderInsertList
    \/ OrderEraseKey
    \/ OrderEraseIterator
    \/ OrderEraseRange
    \/ OrderClear
    \/ OrderFind
    \/ OrderAt

OrderSpec == Init /\ [][OrderNext]_vars

\* an insertion of the absent key k that returns made it the head, in front
\* of the head that the array had when the slot was probed
BecomesHead(r, k) ==
    LET head == IF BucketCount(r.t.data) = BucketCount(m_data)
                THEN m_begin
                ELSE rehash(This, 2 * (m_size + 1)).begin
    IN  /\ r.t.begin = r.pos
        /\ r.t.data[r.pos].key = k
        /\ r.t.data[r.pos].prev = m_end
        /\ r.t.data[r.pos].next = head
        /\ head # m_end => r.t.data[head].prev = r.pos

C22_HeadInsertion ==
    ~hung =>
       /\ TraversalKeys(This) = inserted
       /\ \A k \in Keys, v \in Values :
             \A r \in Insertions(k, v) :
                ~Present(m_data, k) /\ r.pos # NoReturn => BecomesHead(r, k)

\* three keys after an erasure, met in an order that is not the order of the
\* keys: the one inserted last is at the head
C22_Witness ==
    /\ ~hung
    /\ Len(inserted) = 3
    /\ Erased(m_data) # {}
    /\ inserted[1] < inserted[3]
    /\ inserted[3] < inserted[2]
    /\ m_data[m_begin].key = inserted[1]

(***************************************************************************)
(* C23: in a step that is neither a rehash nor a clear, a slot changes its *)
(* state only from Empty or Tombstone to Occupied (by an insertion, one    *)
(* slot for each entry added) or from Occupied to Tombstone (by an erase); *)
(* no slot goes from Occupied or Tombstone to Empty, and no entry changes  *)
(* its slot index.                                                         *)
(***************************************************************************)
\* the slots whose state is from before and to after the call with outcome r
Moved(r, from, to) ==
    {i \in DOMAIN m_data : m_data[i].st = from /\ r.t.data[i].st = to}

\* every slot keeps its state or changes it from "Node" to "Erased" (erase)
\* or from another state to "Node" (insertion); an entry keeps its slot
Lifecycle(r, insertion) ==
    /\ DOMAIN r.t.data = DOMAIN m_data
    /\ \A i \in DOMAIN m_data :
          \/ r.t.data[i].st = m_data[i].st
          \/ insertion /\ ~is_used(m_data[i]) /\ is_used(r.t.data[i])
          \/ ~insertion /\ is_used(m_data[i]) /\ r.t.data[i].st = "Erased"
    /\ \A i \in Occupied(m_data) \cap Occupied(r.t.data) :
          r.t.data[i].key = m_data[i].key
    /\ \A k \in Keys :
          Present(m_data, k) /\ Present(r.t.data, k) =>
             SlotOf(r.t.data, k) = SlotOf(m_data, k)
    /\ Cardinality(Moved(r, "Empty", "Node") \cup Moved(r, "Erased", "Node"))
          = (IF insertion THEN r.t.size - m_size ELSE 0)
    /\ Cardinality(Moved(r, "Node", "Erased"))
          = (IF insertion THEN 0 ELSE m_size - r.t.size)

\* the outcomes of the single-entry insertions that do not grow the array
\* (insert(first, last) and insert(list) are loops of these)
InsertionsWithoutRehash ==
    {r \in UNION {Insertions(k, v) : k \in Keys, v \in Values} :
        BucketCount(r.t.data) = BucketCount(m_data)}

\* the outcomes of the erasures
Erasures ==
    {erase_key(This, k) : k \in Keys}
       \cup {erase_pos(This, pos) : pos \in Occupied(m_data)}
       \cup UNION {{erase_range(This, first, lst) :
                       lst \in Reachable(m_data, first)} :
                   first \in Occupied(m_data)}

C23_SlotLifecycle ==
    /\ \A r \in InsertionsWithoutRehash :
          /\ Lifecycle(r, TRUE)
          /\ r.t.size - m_size \in {0, 1}
    /\ \A r \in Erasures : Lifecycle(r, FALSE)

\* an entry that can be erased, a key whose insertion turns a Tombstone into
\* an Occupied slot, and a key whose insertion turns an Empty slot into one
C23_Witness ==
    /\ ~hung
    /\ m_size >= 1
    /\ \E r \in InsertionsWithoutRehash : Moved(r, "Erased", "Node") # {}
    /\ \E r \in InsertionsWithoutRehash : Moved(r, "Empty", "Node") # {}
    /\ \E r \in Erasures : Cardinality(Moved(r, "Node", "Erased")) = 2

(***************************************************************************)
(* C24: after a rehash, explicit or made by a growing insertion, every     *)
(* slot is Empty or Occupied, the number of Occupied slots is the size()   *)
(* from before the rehash, and every entry sits on the probe sequence of   *)
(* its key with no Empty slot before it.                                   *)
(***************************************************************************)
\* slot i is met on the probe sequence of key from step on, behind Occupied
\* slots only
RECURSIVE MetBehindOccupied(_, _, _, _)
MetBehindOccupied(data, key, i, step) ==
    LET s == CollisionPolicy_next(index(data, key), step, BucketCount(data))
    IN  IF step >= BucketCount(data) THEN FALSE
        ELSE IF s = i THEN TRUE
        ELSE is_used(data[s]) /\ MetBehindOccupied(data, key, i, step + 1)

BehindOccupied(data, i) == MetBehindOccupied(data, data[i].key, i, 0)

Rebuilt(t) ==
    /\ Erased(t.data) = {}
    /\ Cardinality(Occupied(t.data)) = m_size
    /\ t.size = m_size
    /\ \A i \in Occupied(t.data) : BehindOccupied(t.data, i)

\* counts for which rehash keeps the size of the array, doubles it, and
\* doubles it twice
RehashCounts ==
    {0, BucketCount(m_data) + 1, 2 * BucketCount(m_data) + 1}

C24_RehashDropsTombstones ==
    /\ \A count \in RehashCounts : Rebuilt(rehash(This, count))
    /\ Rebuilt(reserve(This, m_size + 1))
    /\ need_rehash(m_size + 1, BucketCount(m_data)) => Rebuilt(grow_if_needed(This))

\* a half-full array with a Tombstone and an entry that is not at the start
\* index of its key, which a rehash to the same size moves there
C24_Witness ==
    /\ ~hung
    /\ Erased(m_data) # {}
    /\ need_rehash(m_size + 1, BucketCount(m_data))
    /\ \E i \in Occupied(m_data) :
          /\ i # index(m_data, m_data[i].key)
          /\ rehash(This, 0).data[index(m_data, m_data[i].key)].key = m_data[i].key
          /\ is_used(rehash(This, 0).data[index(m_data, m_data[i].key)])

(***************************************************************************)
(* PolicySpec: the functions of policy.h applied on their own.  A probe    *)
(* walk is the sequence of calls CollisionPolicy::next(start, step, size)  *)
(* for step = 0, 1, ... that a probe loop makes; call holds the arguments  *)
(* (x, y, size), the result (out) and, for a probe walk, the indices met   *)
(* so far (seen).  One function is applied at a time.  The table is left   *)
(* as constructed.                                                         *)
(***************************************************************************)
ProbeSizes == 1 .. MaxProbeSize

Words == 0 .. (Word - 1)

Applied(c) ==
    /\ call' = c
    /\ UNCHANGED <<m_data, m_size, m_begin, policy, hung, inserted>>

\* step 0 of a probe walk
ProbeStart ==
    \E size \in ProbeSizes, start \in 0 .. (MaxProbeSize - 1) :
       /\ call = NoCall
       /\ start < size
       /\ Applied([fn |-> "next", x |-> start, y |-> 0, size |-> size,
                   out |-> CollisionPolicy_next(start, 0, size),
                   seen |-> {CollisionPolicy_next(start, 0, size)}])

\* the next step of the walk, up to step size - 1
ProbeStep ==
    /\ call.fn = "next"
    /\ call.y + 1 < call.size
    /\ Applied([call EXCEPT
                  !.y = call.y + 1,
                  !.out = CollisionPolicy_next(call.x, call.y + 1, call.size),
                  !.seen = call.seen \cup
                             {CollisionPolicy_next(call.x, call.y + 1, call.size)}])

ApplyHash ==
    \E h \in Words, size \in ProbeSizes :
       call = NoCall /\
       Applied([fn |-> "hash", x |-> h, y |-> 0, size |-> size,
                out |-> MaskRangeHashing_hash(h, size), seen |-> {}])

\* out is 1 for true and 0 for false
ApplyNeedRehash ==
    \E n \in 0 .. (MaxProbeSize + 1), bucket_count \in 0 .. MaxProbeSize :
       call = NoCall /\
       Applied([fn |-> "need_rehash", x |-> n, y |-> 0, size |-> bucket_count,
                out |-> IF need_rehash(n, bucket_count) THEN 1 ELSE 0,
                seen |-> {}])

ApplyBucketsNumber ==
    \E desired_size \in Words :
       call = NoCall /\
       Applied([fn |-> "buckets_number", x |-> desired_size, y |-> 0, size |-> 0,
                out |-> buckets_number(desired_size), seen |-> {}])

\* new_size(desired_size, current_size) with a power of two as current_size
ApplyNewSize ==
    \E desired_size \in Words, j \in 0 .. (WordBits - 1) :
       call = NoCall /\
       Applied([fn |-> "new_size", x |-> desired_size, y |-> Pow2(j), size |-> 0,
                out |-> new_size(desired_size, Pow2(j)), seen |-> {}])

\* the caller goes on; a call of new_size that never returns is not left
Return ==
    /\ call # NoCall
    /\ call.out # NoReturn
    /\ Applied(NoCall)

PolicyNext ==
    \/ Return
    \/ ProbeStart
    \/ ProbeStep
    \/ ApplyHash
    \/ ApplyNeedRehash
    \/ ApplyBucketsNumber
    \/ ApplyNewSize

PolicySpec == Init /\ [][PolicyNext]_vars

(***************************************************************************)
(* C25: for LinearProbing and QuadraticProbing, every power-of-two size    *)
(* and every start in [0, size): next(start, 0, size) = start, and the     *)
(* values next(start, step, size) for step = 0 .. size - 1 are pairwise    *)
(* distinct and cover every index in [0, size).                            *)
(***************************************************************************)
PowersOfTwo == {Pow2(j) : j \in 0 .. WordBits}

C25_ProbeSequencesArePermutations ==
    call.fn = "next" /\ call.size \in PowersOfTwo =>
       /\ call.y = 0 => call.out = call.x
       /\ call.seen \subseteq 0 .. (call.size - 1)
       /\ Cardinality(call.seen) = call.y + 1
       /\ call.y = call.size - 1 => call.seen = 0 .. (call.size - 1)

\* a finished quadratic walk over eight slots that did not start at slot 0
C25_Witness ==
    /\ policy = "Quadratic"
    /\ call.fn = "next"
    /\ call.size = 8
    /\ call.x = 3
    /\ call.y = 7
    /\ call.seen = 0 .. 7
    /\ call.out # (call.x + call.y) % 8

(***************************************************************************)
(* C26: LinearProbing::next(start, step, size) is (start + step) mod size; *)
(* QuadraticProbing::next is (start + (step * step + step) / 2) mod size   *)
(* for a power-of-two size and (start + step * step) mod size otherwise;   *)
(* MaskRangeHashing::hash(h, size) is h mod size for a power-of-two size;  *)
(* every result lies in [0, size).                                         *)
(***************************************************************************)
\* the formulas of the two probing policies other than LinearProbing for a
\* size that is no power of two, and the range of every result
FormulasBesideLinearMask ==
    /\ call.fn \in {"next", "hash"} => call.out \in 0 .. (call.size - 1)
    /\ call.fn = "next" /\ policy = "Quadratic" =>
          call.out = IF call.size \in PowersOfTwo
                     THEN (call.x + (call.y * call.y + call.y) \div 2) % call.size
                     ELSE (call.x + call.y * call.y) % call.size
    /\ call.fn = "hash" /\ call.size \in PowersOfTwo =>
          call.out = call.x % call.size

\* as stated: LinearProbing::next is the sum modulo size for every size
C26_ProbeFormulasForEverySize ==
    /\ FormulasBesideLinearMask
    /\ call.fn = "next" /\ policy = "Linear" =>
          call.out = (call.x + call.y) % call.size

\* amended: LinearProbing::next is the sum modulo size for a power-of-two size
C26_ProbeFormulasForPow2Sizes ==
    /\ FormulasBesideLinearMask
    /\ call.fn = "next" /\ policy = "Linear" /\ call.size \in PowersOfTwo =>
          call.out = (call.x + call.y) % call.size

\* a linear probe that has wrapped around the end of an array of eight slots
C26_Witness ==
    /\ policy = "Linear"
    /\ call.fn = "next"
    /\ call.size = 8
    /\ call.x + call.y = 10
    /\ call.out = 2

(***************************************************************************)
(* C27: need_rehash(n, size) is true exactly when n > size / 2;            *)
(* buckets_number(c) is 2 * c; new_size(desired, floor) with a power of    *)
(* two as floor returns the smallest power of two that is at least desired *)
(* and at least floor, and its loop terminates for every desired value of  *)
(* the integer range.                                                      *)
(***************************************************************************)
\* p is the smallest power of two that is at least desired and at least floor
SmallestPow2AtLeast(p, desired, floor) ==
    /\ p \in PowersOfTwo
    /\ p >= desired
    /\ p >= floor
    /\ \A q \in PowersOfTwo : q >= desired /\ q >= floor => p <= q

RehashPolicyResult ==
    /\ call.fn = "need_rehash" => (call.out = 1 <=> 2 * call.x > call.size)
    /\ call.fn = "buckets_number" => call.out = 2 * call.x
    /\ call.fn = "new_size" =>
          /\ call.out # NoReturn
          /\ SmallestPow2AtLeast(call.out, call.x, call.y)

C27_RehashPolicyArithmetic == RehashPolicyResult

\* the same for arguments whose double fits the word
C27_RehashPolicyBelowHalfWord ==
    \/ call.fn = "buckets_number" /\ 2 * call.x >= Word
    \/ call.fn = "new_size" /\ call.x > Word \div 2
    \/ RehashPolicyResult

\* a call of new_size that is never left
C27_NewSizeNeverReturns == call.fn = "new_size" /\ call.out = NoReturn

(***************************************************************************)
(* C28: an insertion that does not insert (insert, try_emplace, emplace,   *)
(* insert_or_assign, operator[] with a present key) leaves the layout as   *)
(* it is: bucket_count(), the slot index of every entry, the set of        *)
(* Tombstone slots and the iteration order; only a mapped value may        *)
(* change, and only for insert_or_assign.                                  *)
(***************************************************************************)
\* the call with outcome r kept the layout
SameLayout(r) ==
    /\ BucketCount(r.t.data) = BucketCount(m_data)
    /\ \A k \in Keys : SlotOf(r.t.data, k) = SlotOf(m_data, k)
    /\ Erased(r.t.data) = Erased(m_data)
    /\ TraversalKeys(r.t) = TraversalKeys(This)
    /\ r.t.size = m_size

\* the call with outcome r kept the mapped value of every key but k, and
\* that of k too unless assigned is true, when it is v
SameValuesBut(r, k, v, assigned) ==
    \A k2 \in Keys :
       Present(m_data, k2) =>
          ValueOf(r.t.data, k2) =
             IF k2 = k /\ assigned THEN v ELSE ValueOf(m_data, k2)

\* the call with outcome r rebuilt the table in an array of twice the size
RebuiltDoubled(r) ==
    /\ BucketCount(r.t.data) = 2 * BucketCount(m_data)
    /\ Erased(r.t.data) = {}
    /\ \A k \in Keys : Present(r.t.data, k) <=> Present(m_data, k)
    /\ TraversalKeys(r.t) = Reverse(TraversalKeys(This))
    /\ r.t.size = m_size

\* what an insertion of the present key k with value v does when the layout
\* is kept if keeps is true, and rebuilt otherwise
NonInserting(k, v, keeps) ==
    /\ \A r \in Insertions(k, v) \ {generic_insert_or_assign(This, k, v)} :
          /\ r.pos \in SlotOf(r.t.data, k)
          /\ IF keeps THEN SameLayout(r) ELSE RebuiltDoubled(r)
          /\ SameValuesBut(r, k, v, FALSE)
    /\ LET r == generic_insert_or_assign(This, k, v)
       IN  /\ r.pos \in SlotOf(r.t.data, k)
           /\ ~r.flag
           /\ IF keeps THEN SameLayout(r) ELSE RebuiltDoubled(r)
           /\ SameValuesBut(r, k, v, TRUE)

\* as stated: the layout is kept by every non-inserting insertion
C28_NonInsertingInsertionKeepsLayout ==
    \A k \in Keys, v \in Values :
       Present(m_data, k) => NonInserting(k, v, TRUE)

\* amended: the layout is kept when size() + 1 does not exceed half of
\* bucket_count(); otherwise the table is rebuilt in an array of twice the
\* size before the key is looked up
C28_NonInsertingInsertionKeepsLayoutBelowThreshold ==
    \A k \in Keys, v \in Values :
       Present(m_data, k) =>
          NonInserting(k, v, ~need_rehash(m_size + 1, BucketCount(m_data)))

\* a table below the threshold with a Tombstone and two entries, and a key
\* of it whose mapped value insert_or_assign changes
C28_Witness ==
    /\ ~hung
    /\ m_size = 2
    /\ Erased(m_data) # {}
    /\ ~need_rehash(m_size + 1, BucketCount(m_data))
    /\ \E k \in Keys :
          /\ Present(m_data, k)
          /\ ValueOf(m_data, k) = DefaultValue
          /\ ValueOf(generic_insert_or_assign(This, k, OtherValue).t.data, k)
                = OtherValue
          /\ m_data[m_begin].key # k

(***************************************************************************)
(* C29: erase(first, last) with first = last is a no-op that reads and     *)
(* writes slots of the array only, for every iterator first, end()         *)
(* included: the slot array, the links, the head and size() are unchanged. *)
(*                                                                         *)
(* erase(first, last) opens with link_nodes(first.get_node().prev, last).  *)
(* For first = end() the position of first is m_end, the largest size_t,   *)
(* and get_node() is m_data[m_end].get(): an access outside the array,     *)
(* whose behaviour is undefined.  What is found there is not an entry (the *)
(* program is ended: get() is noexcept and std::get throws), or it is      *)
(* taken for an entry whose prev is any value: end(), for which link_nodes *)
(* makes last the head, or the index of an entry, whose next link becomes  *)
(* last.  EraseSpec adds this call to the calls of Spec; what the program  *)
(* does after the access is undefined too, and no later call is made.      *)
(***************************************************************************)
\* position returned by a call that ended the program
Terminated == -4

\* erase(end(), end()): the outcomes; flag tells whether only slots of the
\* array were read and written
erase_range_at_end(t) ==
    {Res(t, Terminated, FALSE)}
       \cup {Res(link_nodes(t, left, m_end), m_end, FALSE) :
                left \in Occupied(t.data) \cup {m_end}}

EraseRangeAtEnd ==
    \E r \in erase_range_at_end(This) :
       /\ ~hung
       /\ m_data' = r.t.data
       /\ m_size' = r.t.size
       /\ m_begin' = r.t.begin
       /\ hung' = TRUE
       /\ UNCHANGED <<policy, inserted, call>>

EraseNext == Next \/ EraseRangeAtEnd

EraseSpec == Init /\ [][EraseNext]_vars

\* erase(first, first) at the entry first, for every entry
EmptyRangeAtEntryIsNoOp ==
    \A first \in Occupied(m_data) :
       LET r == erase_range(This, first, first)
       IN  r.t = This /\ r.pos = first /\ r.flag

C29_EmptyRangeEraseIsNoOp ==
    ~hung =>
       /\ EmptyRangeAtEntryIsNoOp
       /\ \A r \in erase_range_at_end(This) :
             r.t = This /\ r.pos = m_end /\ r.flag

\* the part of C29 that the code keeps, in the runs of Spec: an empty range
\* at an entry
C29_EmptyRangeAtEntry == ~hung => EmptyRangeAtEntryIsNoOp

\* erase(end(), end()) has emptied the traversal of a table that has entries
C29_HeadLost ==
    /\ hung
    /\ m_size = 2
    /\ m_begin = m_end
    /\ Cardinality(Occupied(m_data)) = 2

=============================================================================
